---- MODULE Spec2Model ----
(***************************************************************************)
(* Storage HTTP adapter of the volume manager (pkg/router/storage.go).     *)
(*                                                                         *)
(* One request is in flight at a time (the handlers share no state, so     *)
(* requests are independent).  A request is routed, passes the admin       *)
(* middleware when its route is registered on the /storages group, and is  *)
(* served by its handler.  The action layer (server.StorageActions) is an  *)
(* opaque collaborator: each call returns nil or one of a few errors,      *)
(* chosen nondeterministically.  Every call the adapter makes during the   *)
(* request is appended to the log `calls`.                                 *)
(***************************************************************************)
EXTENDS Integers, Sequences, FiniteSets, TLC

VARIABLES
    pc,      \* "idle" | "routing" | "handler" | "importing" | "done"
    ctx,     \* the request: route, caller role, path parameter, body
    calls,   \* StorageActions calls made while serving the request
    status,  \* HTTP status written to the response, 0 while none is written
    body,    \* response body
    resp,    \* importStoragesHandler's local ImportResponse
    idx,     \* importStoragesHandler's loop position (items processed)
    ran      \* the handler that was entered for the request, "none" if none

vars == <<pc, ctx, calls, status, body, resp, idx, ran>>

-----------------------------------------------------------------------------
(* Bounds of the model *)

MaxLen == 2

Names == {"vol1", "vol2"}

Sizes == {100, 200}

Roles == {"admin", "user"}

-----------------------------------------------------------------------------
(* net/http status codes used by the handlers *)

StatusOK == 200

StatusCreated == 201

StatusAccepted == 202

(* Size given to every imported storage *)
ImportSize == 100

-----------------------------------------------------------------------------
(* Routes *)

CreateRoute == "POST /storages"

ListRoute == "GET /storages"

UpdateRoute == "PUT /storages/:name"

DeleteRoute == "DELETE /storages/:name"

ImportRoute == "POST /import/storages"

Routes == {CreateRoute, ListRoute, UpdateRoute, DeleteRoute, ImportRoute}

(* Routes registered on the group created with RequireAdminRole; the import
   route is registered on the engine itself. *)
GroupRoutes == {CreateRoute, ListRoute, UpdateRoute, DeleteRoute}

(* The PUT route registered on the engine instead of the group *)
Guarded_PutOutsideGroup(route) == route \in GroupRoutes \ {UpdateRoute}

Guarded(route) == route \in GroupRoutes

-----------------------------------------------------------------------------
(* Request bodies.  A body is a JSON object with a name and a size, a JSON
   array of names, or text that is not JSON at all. *)

RECURSIVE SeqsUpTo(_, _)
SeqsUpTo(S, n) ==
    IF n = 0 THEN {<<>>}
    ELSE LET shorter == SeqsUpTo(S, n - 1)
         IN  shorter \cup {Append(s, x) : s \in {t \in shorter : Len(t) = n - 1}, x \in S}

ObjectBodies == [kind : {"object"}, name : Names, size : Sizes, items : {<<>>}]

ArrayBodies == [kind : {"array"}, name : {""}, size : {0}, items : SeqsUpTo(Names, MaxLen)]

GarbageBodies == [kind : {"garbage"}, name : {""}, size : {0}, items : {<<>>}]

Bodies == ObjectBodies \cup ArrayBodies \cup GarbageBodies

Requests == [route : Routes, role : Roles, param : Names, body : Bodies]

NoRequest == [route |-> "", role |-> "", param |-> "", body |-> CHOOSE b \in GarbageBodies : TRUE]

-----------------------------------------------------------------------------
(* Values of the action layer *)

NoStorage == [Name |-> "", Size |-> 0]

Nil == [kind |-> "nil", text |-> ""]

Errors == { [kind |-> "quota", text |-> "quota exceeded"],
            [kind |-> "notfound", text |-> "not found"] }

ActionResults == {Nil} \cup Errors

(* err.Error() *)
ErrorText(err) == err.text

StorageLists == { <<>>,
                  << [Name |-> "vol1", Size |-> 100] >>,
                  << [Name |-> "vol2", Size |-> 200], [Name |-> "vol1", Size |-> 100] >> }

-----------------------------------------------------------------------------
(* Response bodies *)

EmptyResponse == [Imported |-> <<>>, Failed |-> <<>>]

EmptyBody == [kind |-> "empty", error |-> "", storages |-> <<>>, import |-> EmptyResponse]

ErrorBody(text) == [EmptyBody EXCEPT !.kind = "error", !.error = text]

StoragesBody(list) == [EmptyBody EXCEPT !.kind = "storages", !.storages = list]

ImportBody(r) == [EmptyBody EXCEPT !.kind = "import", !.import = r]

(* TranslateValidate.BadRequest: the status/body pair of a malformed request *)
BadRequest == [status |-> 400, body |-> ErrorBody("bad request")]

(* TranslateValidate.HandleError: the status/body pair of a domain error *)
HandleError(err) ==
    [status |-> IF err.kind = "notfound" THEN 404 ELSE 403,
     body   |-> ErrorBody(ErrorText(err))]

(* httputil.RequireAdminRole: the middleware lets only the admin role pass *)
RequireAdminRole(role) == role = "admin"

AdminRequired == [status |-> 403, body |-> ErrorBody("admin required")]

-----------------------------------------------------------------------------
(* ctx.ShouldBindWith(&req, binding.JSON) for the three request shapes *)

BindStorage(b) ==
    IF b.kind = "object"
    THEN [ok |-> TRUE, req |-> [Name |-> b.name, Size |-> b.size]]
    ELSE [ok |-> FALSE, req |-> NoStorage]

BindUpdate(b) ==
    IF b.kind = "object"
    THEN [ok |-> TRUE, req |-> [Name |-> b.name, Size |-> b.size]]
    ELSE [ok |-> FALSE, req |-> NoStorage]

BindNames(b) ==
    IF b.kind = "array"
    THEN [ok |-> TRUE, req |-> b.items]
    ELSE [ok |-> FALSE, req |-> <<>>]

Call(op, name, store, err) == [op |-> op, name |-> name, store |-> store, err |-> err]

Outcome(cs, reply) == [calls |-> cs, status |-> reply.status, body |-> reply.body]

-----------------------------------------------------------------------------
(* kube-client ImportResponse.ImportSuccessful / ImportFailed: append one
   result to the matching list *)

ImportResult(name, namespace, message) ==
    [Name |-> name, Namespace |-> namespace, Message |-> message]

ImportSuccessful(rsp, name, namespace) ==
    [rsp EXCEPT !.Imported = Append(@, ImportResult(name, namespace, ""))]

ImportFailed(rsp, name, namespace, message) ==
    [rsp EXCEPT !.Failed = Append(@, ImportResult(name, namespace, message))]

-----------------------------------------------------------------------------
(* The handlers, as functions of the request c and of what the action layer
   returns (res, and list for GetStorages) when the handler calls it. *)

(* The return after the BadRequest abort is missing: the action is still called *)
createStorageHandler_NoReturn(c, res) ==
    LET b  == BindStorage(c.body)
        cs == << Call("CreateStorage", "", b.req, res) >>
    IN  IF ~b.ok THEN Outcome(cs, BadRequest)
        ELSE IF res # Nil THEN Outcome(cs, HandleError(res))
        ELSE Outcome(cs, [status |-> StatusCreated, body |-> EmptyBody])

(* Success answered with 200 instead of 201 *)
createStorageHandler_StatusOK(c, res) ==
    LET b == BindStorage(c.body)
    IN  IF ~b.ok THEN Outcome(<<>>, BadRequest)
        ELSE LET cs == << Call("CreateStorage", "", b.req, res) >>
             IN  IF res # Nil THEN Outcome(cs, HandleError(res))
                 ELSE Outcome(cs, [status |-> StatusOK, body |-> EmptyBody])

createStorageHandler(c, res) ==
    LET b == BindStorage(c.body)
    IN  IF ~b.ok THEN Outcome(<<>>, BadRequest)
        ELSE LET cs == << Call("CreateStorage", "", b.req, res) >>
             IN  IF res # Nil THEN Outcome(cs, HandleError(res))
                 ELSE Outcome(cs, [status |-> StatusCreated, body |-> EmptyBody])

getStoragesHandler(c, res, list) ==
    LET cs == << Call("GetStorages", "", NoStorage, res) >>
    IN  IF res # Nil THEN Outcome(cs, HandleError(res))
        ELSE Outcome(cs, [status |-> StatusOK, body |-> StoragesBody(list)])

(* The target name taken from the bound body instead of ctx.Param("name") *)
updateStorageHandler_NameFromBody(c, res) ==
    LET b == BindUpdate(c.body)
    IN  IF ~b.ok THEN Outcome(<<>>, BadRequest)
        ELSE LET cs == << Call("UpdateStorage", b.req.Name, b.req, res) >>
             IN  IF res # Nil THEN Outcome(cs, HandleError(res))
                 ELSE Outcome(cs, [status |-> StatusAccepted, body |-> EmptyBody])

updateStorageHandler(c, res) ==
    LET b == BindUpdate(c.body)
    IN  IF ~b.ok THEN Outcome(<<>>, BadRequest)
        ELSE LET cs == << Call("UpdateStorage", c.param, b.req, res) >>
             IN  IF res # Nil THEN Outcome(cs, HandleError(res))
                 ELSE Outcome(cs, [status |-> StatusAccepted, body |-> EmptyBody])

(* The error of DeleteStorage dropped: 202 whatever the action returned *)
deleteStorageHandler_IgnoreError(c, res) ==
    Outcome(<< Call("DeleteStorage", c.param, NoStorage, res) >>,
            [status |-> StatusAccepted, body |-> EmptyBody])

deleteStorageHandler(c, res) ==
    LET cs == << Call("DeleteStorage", c.param, NoStorage, res) >>
    IN  IF res # Nil THEN Outcome(cs, HandleError(res))
        ELSE Outcome(cs, [status |-> StatusAccepted, body |-> EmptyBody])

(* importStoragesHandler: the bind at its top *)
importBind(c) ==
    LET b == BindNames(c.body)
    IN  IF ~b.ok
        THEN [ok |-> FALSE, status |-> BadRequest.status, body |-> BadRequest.body]
        ELSE [ok |-> TRUE, status |-> 0, body |-> EmptyBody]

(* The else is missing: a failed item is also recorded as imported *)
importStep_NoElse(list, i, rsp, res) ==
    LET r     == list[i]
        store == [Name |-> r, Size |-> ImportSize]
        cs    == << Call("CreateStorage", "", store, res) >>
    IN  [calls |-> cs,
         resp  |-> IF res # Nil
                   THEN ImportSuccessful(ImportFailed(rsp, r, "", ErrorText(res)), r, "")
                   ELSE ImportSuccessful(rsp, r, ""),
         next  |-> i + 1]

(* The loop is left at the first failing item *)
importStep_BreakOnError(list, i, rsp, res) ==
    LET r     == list[i]
        store == [Name |-> r, Size |-> ImportSize]
        cs    == << Call("CreateStorage", "", store, res) >>
    IN  [calls |-> cs,
         resp  |-> IF res # Nil THEN ImportFailed(rsp, r, "", ErrorText(res))
                   ELSE ImportSuccessful(rsp, r, ""),
         next  |-> IF res # Nil THEN Len(list) + 1 ELSE i + 1]

(* A failing CreateStorage is tried a second time *)
importStep_Retry(list, i, rsp, res) ==
    LET r     == list[i]
        store == [Name |-> r, Size |-> ImportSize]
        c     == Call("CreateStorage", "", store, res)
    IN  [calls |-> IF res # Nil THEN << c, c >> ELSE << c >>,
         resp  |-> IF res # Nil THEN ImportFailed(rsp, r, "", ErrorText(res))
                   ELSE ImportSuccessful(rsp, r, ""),
         next  |-> i + 1]

(* The namespace and message arguments of ImportFailed swapped *)
importStep_SwappedArgs(list, i, rsp, res) ==
    LET r     == list[i]
        store == [Name |-> r, Size |-> ImportSize]
        cs    == << Call("CreateStorage", "", store, res) >>
    IN  [calls |-> cs,
         resp  |-> IF res # Nil THEN ImportFailed(rsp, r, ErrorText(res), "")
                   ELSE ImportSuccessful(rsp, r, ""),
         next  |-> i + 1]

(* importStoragesHandler: one iteration of the loop over req, at position i
   (1-based), with rsp the response built so far *)
importStep(list, i, rsp, res) ==
    LET r     == list[i]
        store == [Name |-> r, Size |-> ImportSize]
        cs    == << Call("CreateStorage", "", store, res) >>
    IN  [calls |-> cs,
         resp  |-> IF res # Nil THEN ImportFailed(rsp, r, "", ErrorText(res))
                   ELSE ImportSuccessful(rsp, r, ""),
         next  |-> i + 1]

(* An error status sent as soon as one item failed *)
importRespond_FailOnFailed(rsp) ==
    [status |-> IF rsp.Failed # <<>> THEN 500 ELSE StatusAccepted, body |-> ImportBody(rsp)]

(* importStoragesHandler: ctx.JSON(http.StatusAccepted, resp) after the loop *)
importRespond(rsp) == [status |-> StatusAccepted, body |-> ImportBody(rsp)]

-----------------------------------------------------------------------------
(* State machine *)

Init ==
    /\ pc = "idle"
    /\ ctx = NoRequest
    /\ calls = <<>>
    /\ status = 0
    /\ body = EmptyBody
    /\ resp = EmptyResponse
    /\ idx = 0
    /\ ran = "none"

(* A request arrives at the engine. *)
Receive ==
    /\ pc = "idle"
    /\ \E r \in Requests : ctx' = r
    /\ pc' = "routing"
    /\ calls' = <<>>
    /\ status' = 0
    /\ body' = EmptyBody
    /\ resp' = EmptyResponse
    /\ idx' = 0
    /\ ran' = "none"

(* The engine runs the middleware chain of the matched route: the group's
   RequireAdminRole for the /storages routes, nothing for the import route. *)
Route ==
    /\ pc = "routing"
    /\ IF Guarded(ctx.route) /\ ~RequireAdminRole(ctx.role)
       THEN /\ status' = AdminRequired.status
            /\ body' = AdminRequired.body
            /\ pc' = "done"
       ELSE /\ pc' = "handler"
            /\ UNCHANGED <<status, body>>
    /\ UNCHANGED <<ctx, calls, resp, idx, ran>>

Finish(o, name) ==
    /\ calls' = o.calls
    /\ status' = o.status
    /\ body' = o.body
    /\ ran' = name
    /\ pc' = "done"
    /\ UNCHANGED <<ctx, resp, idx>>

ServeCreate ==
    /\ pc = "handler"
    /\ ctx.route = CreateRoute
    /\ \E res \in ActionResults : Finish(createStorageHandler(ctx, res), "create")

ServeList ==
    /\ pc = "handler"
    /\ ctx.route = ListRoute
    /\ \E res \in ActionResults, list \in StorageLists :
           Finish(getStoragesHandler(ctx, res, list), "list")

ServeUpdate ==
    /\ pc = "handler"
    /\ ctx.route = UpdateRoute
    /\ \E res \in ActionResults : Finish(updateStorageHandler(ctx, res), "update")

ServeDelete ==
    /\ pc = "handler"
    /\ ctx.route = DeleteRoute
    /\ \E res \in ActionResults : Finish(deleteStorageHandler(ctx, res), "delete")

ImportBegin ==
    /\ pc = "handler"
    /\ ctx.route = ImportRoute
    /\ LET b == importBind(ctx)
       IN  /\ status' = b.status
           /\ body' = b.body
           /\ pc' = IF b.ok THEN "importing" ELSE "done"
    /\ resp' = EmptyResponse
    /\ idx' = 0
    /\ ran' = "import"
    /\ UNCHANGED <<ctx, calls>>

ImportItem ==
    /\ pc = "importing"
    /\ idx < Len(BindNames(ctx.body).req)
    /\ \E res \in ActionResults :
           LET s == importStep(BindNames(ctx.body).req, idx + 1, resp, res)
           IN  /\ calls' = calls \o s.calls
               /\ resp' = s.resp
               /\ idx' = s.next - 1
    /\ UNCHANGED <<pc, ctx, status, body, ran>>

ImportRespond ==
    /\ pc = "importing"
    /\ idx >= Len(BindNames(ctx.body).req)
    /\ LET o == importRespond(resp)
       IN  /\ status' = o.status
           /\ body' = o.body
    /\ pc' = "done"
    /\ UNCHANGED <<ctx, calls, resp, idx, ran>>

(* The response is written out; the engine is ready for the next request. *)
Done ==
    /\ pc = "done"
    /\ pc' = "idle"
    /\ UNCHANGED <<ctx, calls, status, body, resp, idx, ran>>

Next ==
    \/ Receive
    \/ Route
    \/ ServeCreate
    \/ ServeList
    \/ ServeUpdate
    \/ ServeDelete
    \/ ImportBegin
    \/ ImportItem
    \/ ImportRespond
    \/ Done

Spec == Init /\ [][Next]_vars

(* The handler goroutine keeps running and the action calls return. *)
FairSpec == Spec /\ WF_vars(ImportItem) /\ WF_vars(ImportRespond)

-----------------------------------------------------------------------------
(* Vocabulary of the properties *)

SuccessStatuses == {StatusOK, StatusCreated, StatusAccepted}

(* The request has been answered *)
Answered == pc \in {"done", "idle"} /\ ctx # NoRequest

(* The names of the import list as sent, and the record sent in an object body *)
SentNames == ctx.body.items

SentRecord == [Name |-> ctx.body.name, Size |-> ctx.body.size]

(* The import handler got past its bind *)
ImportBound == ran = "import" /\ ctx.body.kind = "array"

Succeeded(c) == c.err = Nil

Failing(c) == c.err # Nil

NamesOf(s) == [i \in 1..Len(s) |-> s[i].Name]

CalledNames(s) == [i \in 1..Len(s) |-> s[i].store.Name]

FailureOf(c) == [Name |-> c.store.Name, Namespace |-> "", Message |-> c.err.text]

-----------------------------------------------------------------------------
(* C1: in create, import and update, a body that does not bind is answered
   with 400 and no StorageActions operation is called for that request. *)
C1_MalformedBodyIs400 ==
    /\ (ran = "create" /\ ~BindStorage(ctx.body).ok) => (status = 400 /\ calls = <<>>)
    /\ (ran = "update" /\ ~BindUpdate(ctx.body).ok) => (status = 400 /\ calls = <<>>)
    /\ (ran = "import" /\ ~BindNames(ctx.body).ok) =>
           (status = 400 /\ calls = <<>> /\ pc # "importing")

C1_Witness ==
    /\ pc = "done"
    /\ ran = "import"
    /\ ctx.body.kind = "object"
    /\ status = 400
    /\ calls = <<>>

(* C2 as stated: every import request, whatever its body, is answered with
   202 and the aggregated ImportResponse. *)
C2_ImportNeverFails ==
    (ran = "import" /\ Answered) => (status = StatusAccepted /\ body.kind = "import")

(* C2 amended: an import request whose body binds to a list of names is
   answered with 202 and the aggregated ImportResponse whatever the per-item
   outcomes; one whose body does not bind is answered with BadRequest. *)
C2_BoundImportIs202 ==
    (ran = "import" /\ Answered) =>
        IF BindNames(ctx.body).ok
        THEN status = StatusAccepted /\ body = ImportBody(resp)
        ELSE status = BadRequest.status /\ body = BadRequest.body

C2_Witness ==
    /\ pc = "done"
    /\ ImportBound
    /\ Len(resp.Failed) = Len(SentNames)
    /\ Len(SentNames) > 0
    /\ status = StatusAccepted

(* C3: during and after the import loop, len(Imported) + len(Failed) is the
   number of items processed, Imported holds one entry per processed position
   whose call returned nil and Failed one per position whose call returned an
   error; when the handler responds the number processed is N. *)
C3_ImportPartition ==
    ImportBound =>
        /\ Len(resp.Imported) + Len(resp.Failed) = idx
        /\ idx = Len(calls)
        /\ Len(resp.Imported) = Cardinality({i \in 1..Len(calls) : Succeeded(calls[i])})
        /\ Len(resp.Failed) = Cardinality({i \in 1..Len(calls) : Failing(calls[i])})
        /\ Answered => idx = Len(SentNames)

C3_Witness ==
    /\ pc = "done"
    /\ ImportBound
    /\ SentNames = << "vol1", "vol1" >>
    /\ Len(resp.Imported) = 1
    /\ Len(resp.Failed) = 1

(* C4: the import calls are made one at a time in input order, a failing
   call does not stop the loop, the 202 is sent only after the last item, every
   item is eventually attempted, and Imported and Failed keep input order. *)
C4_InOrder ==
    ImportBound =>
        /\ Len(calls) <= Len(SentNames)
        /\ CalledNames(calls) = SubSeq(SentNames, 1, Len(calls))
        /\ status = StatusAccepted => Len(calls) = Len(SentNames)
        /\ NamesOf(resp.Imported) = CalledNames(SelectSeq(calls, Succeeded))
        /\ NamesOf(resp.Failed) = CalledNames(SelectSeq(calls, Failing))

C4_OneAtATime ==
    (pc = "importing" /\ pc' = "importing" /\ calls' # calls) =>
        /\ Len(calls') = Len(calls) + 1
        /\ SubSeq(calls', 1, Len(calls)) = calls
        /\ status' = 0

C4_ImportSequencing ==
    /\ []C4_InOrder
    /\ [][C4_OneAtATime]_vars
    /\ (pc = "importing") ~>
           (pc = "done" /\ status = StatusAccepted /\ Len(calls) = Len(SentNames))

C4_Witness ==
    /\ pc = "done"
    /\ ImportBound
    /\ Len(SentNames) = 2
    /\ Failing(calls[1])
    /\ Succeeded(calls[2])
    /\ status = StatusAccepted

(* C5: a create whose body binds calls CreateStorage exactly once, with the
   record sent in the body, and nothing else; when that call returns nil the
   answer is 201 with an empty body. *)
C5_CreateSuccess ==
    (ran = "create" /\ ctx.body.kind = "object") =>
        /\ Len(calls) = 1
        /\ calls[1].op = "CreateStorage"
        /\ calls[1].store = SentRecord
        /\ Succeeded(calls[1]) => (status = 201 /\ body = EmptyBody)

C5_Witness ==
    /\ pc = "done"
    /\ ran = "create"
    /\ status = 201
    /\ calls = << Call("CreateStorage", "", [Name |-> "vol2", Size |-> 200], Nil) >>

(* C6 as stated: on every route, the import route included, a request of a
   caller without the admin role reaches no handler and causes no action
   call. *)
C6_AllRoutesAdminOnly ==
    (ctx # NoRequest /\ ctx.role # "admin" /\ pc # "routing") =>
        (ran = "none" /\ calls = <<>> /\ pc \notin {"handler", "importing"})

(* C6 amended: on the four /storages routes a request of a caller without
   the admin role reaches no handler and causes no action call; the import
   route is registered outside the group, with no role check in front. *)
C6_StoragesRoutesAdminOnly ==
    (/\ ctx.route \in {"POST /storages", "GET /storages",
                       "PUT /storages/:name", "DELETE /storages/:name"}
     /\ ctx.role # "admin"
     /\ pc # "routing") =>
        (ran = "none" /\ calls = <<>> /\ pc \notin {"handler", "importing"})

C6_Witness ==
    /\ pc = "done"
    /\ ctx.route = UpdateRoute
    /\ ctx.role = "user"
    /\ ran = "none"
    /\ status = AdminRequired.status

(* C7: update and delete pass the path parameter as the name, never a name
   of the body; update passes the body as the payload; both answer 202 with an
   empty body when the action returns nil. *)
C7_PathParameter ==
    /\ (ran = "update" /\ ctx.body.kind = "object") =>
           /\ Len(calls) = 1
           /\ calls[1].op = "UpdateStorage"
           /\ calls[1].name = ctx.param
           /\ calls[1].store = SentRecord
           /\ Succeeded(calls[1]) => (status = 202 /\ body = EmptyBody)
    /\ ran = "delete" =>
           /\ Len(calls) = 1
           /\ calls[1].op = "DeleteStorage"
           /\ calls[1].name = ctx.param
           /\ Succeeded(calls[1]) => (status = 202 /\ body = EmptyBody)

C7_Witness ==
    /\ pc = "done"
    /\ ran = "update"
    /\ ctx.param = "vol1"
    /\ ctx.body.name = "vol2"
    /\ calls[1].name = "vol1"
    /\ status = 202

(* C8: in create, list, update and delete, when the action call returns an
   error the answer is HandleError's status/body pair for that error, no
   success status is sent, and that call is the only one of the request. *)
C8_ActionErrorTranslated ==
    (ran \in {"create", "list", "update", "delete"} /\ calls # <<>> /\ Failing(calls[1])) =>
        /\ status = HandleError(calls[1].err).status
        /\ body = HandleError(calls[1].err).body
        /\ status \notin SuccessStatuses
        /\ Len(calls) = 1

C8_Witness ==
    /\ pc = "done"
    /\ ran = "delete"
    /\ calls[1].err.kind = "notfound"
    /\ status = 404

(* C9: create, list, update and delete call their action at most once per
   request; import has called CreateStorage once per processed position and,
   when answered, exactly N times for a list of length N, failures and
   repeated names included. *)
C9_NoRetries ==
    /\ ran \in {"create", "list", "update", "delete"} => Len(calls) <= 1
    /\ ImportBound =>
           /\ Len(calls) = idx
           /\ \A i \in 1..Len(calls) : calls[i].op = "CreateStorage"
           /\ Answered => Len(calls) = Len(SentNames)

C9_Witness ==
    /\ pc = "done"
    /\ ImportBound
    /\ SentNames = << "vol2", "vol2" >>
    /\ Len(calls) = 2
    /\ Failing(calls[1])
    /\ Failing(calls[2])

(* C10: for the name r at each position of an import list the record given
   to CreateStorage is {Name: r, Size: 100}; a failure with error e adds
   {r, e's text} to Failed and a success adds r to Imported. *)
C10_ImportRecords ==
    ImportBound =>
        /\ \A i \in 1..Len(calls) : calls[i].store = [Name |-> SentNames[i], Size |-> 100]
        /\ resp.Failed = [i \in 1..Len(resp.Failed) |-> FailureOf(SelectSeq(calls, Failing)[i])]
        /\ NamesOf(resp.Imported) = CalledNames(SelectSeq(calls, Succeeded))
        /\ \A i \in 1..Len(resp.Imported) : resp.Imported[i].Namespace = ""

C10_Witness ==
    /\ pc = "done"
    /\ ImportBound
    /\ SentNames = << "vol1", "vol2" >>
    /\ NamesOf(resp.Imported) = << "vol1" >>
    /\ resp.Failed = << [Name |-> "vol2", Namespace |-> "", Message |-> "quota exceeded"] >>
    /\ status = 202
    /\ body.import = resp

====
